---- MODULE Spec2Model ----
(***************************************************************************)
(* Model of examples/integrations/python/openapi_ai_agents_client.py:      *)
(* the OpenAPIAgentsClient request helper with its transport retry policy, *)
(* the nine client operations, load_specification and the CLI entry point.  *)
(*                                                                         *)
(* The transport (requests.Session + urllib3 Retry mounted by __init__) is *)
(* modelled as the constructor configures it: urllib3 1.x semantics, where  *)
(* Retry(total=N, status_forcelist=F) re-sends on a status in F and, once   *)
(* the budget is spent, raises MaxRetryError, which requests surfaces as    *)
(* RetryError (a RequestException, not an HTTPError).  The keyword          *)
(* method_whitelist the constructor passes exists only in urllib3 1.x.      *)
(***************************************************************************)
EXTENDS Integers, Sequences, FiniteSets, TLC

\* Largest max_retries a library caller passes to the constructor.
MaxRetries == 1

\* Defaults of OpenAPIAgentsClient.__init__, used by the CLI.
DefaultTimeout == 30
DefaultMaxRetries == 3

----------------------------------------------------------------------------
(* Values *)

None == [nil |-> TRUE]

\* Python str.rstrip('/') / str.lstrip('/') on a URL kept as a sequence of pieces.
RECURSIVE rstrip(_)
rstrip(s) ==
    IF Len(s) > 0 /\ s[Len(s)] = "/" THEN rstrip(SubSeq(s, 1, Len(s) - 1)) ELSE s

RECURSIVE lstrip(_)
lstrip(s) ==
    IF Len(s) > 0 /\ s[1] = "/" THEN lstrip(Tail(s)) ELSE s

\* urljoin(base, rel) for a base ending in "/" and a relative path without a
\* leading slash: the path is appended to the base.
urljoin(base, rel) == base \o rel

DefaultBaseUrl == <<"https://api.openapi-ai-agents.org", "/", "v1">>

BaseUrls == {DefaultBaseUrl, DefaultBaseUrl \o <<"/">>}

ApiKeys == {"K1", "K2"}

\* Retry(total=max_retries, backoff_factor=1, status_forcelist=[...], method_whitelist=[...])
Retry(total) ==
    [total            |-> total,
     backoff_factor   |-> 1,
     status_forcelist |-> {429, 500, 502, 503, 504},
     method_whitelist |-> {"HEAD", "GET", "PUT", "DELETE", "OPTIONS", "TRACE", "POST"}]

\* OpenAPIAgentsClient.__init__: the session configuration.
OpenAPIAgentsClient(api_key, base_url, timeout, max_retries) ==
    [api_key     |-> api_key,
     base_url    |-> rstrip(base_url),
     timeout     |-> timeout,
     max_retries |-> Retry(max_retries),
     headers     |-> ("Content-Type" :> "application/json")
                     @@ ("X-API-Key" :> api_key)
                     @@ ("User-Agent" :> "openapi-ai-agents-python-client/1.0.0")]

NoClient ==
    [api_key     |-> "",
     base_url    |-> <<>>,
     timeout     |-> 0,
     max_retries |-> Retry(0),
     headers     |-> ("Content-Type" :> "") @@ ("X-API-Key" :> "") @@ ("User-Agent" :> "")]

----------------------------------------------------------------------------
(* Inputs: a specification is a mapping or YAML text *)

D1 == [openapi |-> "3.1", title |-> "one"]
D2 == [openapi |-> "3.1", title |-> "two"]

DictInput == [isStr |-> FALSE, dict |-> D1, text |-> ""]

Inputs ==
    {DictInput,
     [isStr |-> TRUE, dict |-> None, text |-> "yaml_d2"],
     [isStr |-> TRUE, dict |-> None, text |-> "yaml_bad"]}

\* yaml.safe_load on text: the mapping it denotes, or a YAMLError.
yaml_safe_load(text) ==
    IF text = "yaml_d2" THEN [ok |-> TRUE, value |-> D2]
    ELSE [ok |-> FALSE, value |-> None]

\* if isinstance(x, str): x = yaml.safe_load(x)
ResolveInput(input) ==
    IF input.isStr THEN yaml_safe_load(input.text)
    ELSE [ok |-> TRUE, value |-> input.dict]

----------------------------------------------------------------------------
(* Server responses *)

NoObj == [nil |-> TRUE]

\* A response object carrying every field some operation reads.
\* keyed: whether the entries of `optimizations` carry the keys the CLI prints.
FullObj(valid, keyed) ==
    [valid                   |-> valid,
     certification_level     |-> "gold",
     readiness_level         |-> "ready",
     passed                  |-> <<"a">>,
     warnings                |-> <<>>,
     errors                  |-> IF valid THEN <<>> ELSE <<"e">>,
     frameworks              |-> <<"fedramp">>,
     protocols               |-> <<"mcp">>,
     authorization_readiness |-> "high",
     framework_results       |-> [fedramp |-> "ok"],
     summary                 |-> [total_passed |-> 1, total_warnings |-> 0, total_errors |-> 0],
     total_tokens            |-> 100,
     compressed_tokens       |-> 70,
     cost_projections        |-> [model |-> "gpt-4-turbo", daily_cost |-> 12,
                                  monthly_cost |-> 360, annual_cost |-> 4380,
                                  annual_savings |-> 1314, savings_percentage |-> 30],
     token_breakdown         |-> [paths |-> 100],
     optimizations           |-> IF keyed
                                 THEN <<[type |-> "dedupe", potential_savings |-> "10%"]>>
                                 ELSE <<[name |-> "dedupe"]>>]

ObjBody(o) == [kind |-> "object", obj |-> o, text |-> "{...}"]

Bodies ==
    {ObjBody(FullObj(TRUE, TRUE)),
     ObjBody(FullObj(TRUE, FALSE)),
     ObjBody(FullObj(FALSE, TRUE)),
     ObjBody([valid |-> TRUE]),
     ObjBody([error |-> "quota"]),
     ObjBody([message |-> "no"]),
     [kind |-> "array", obj |-> NoObj, text |-> "[]"],
     [kind |-> "text",  obj |-> NoObj, text |-> "oops"],
     [kind |-> "empty", obj |-> NoObj, text |-> ""]}

Statuses == {200, 401, 404, 429, 503}

\* A connection failure or timeout: no response at all.
ConnError == [status |-> 0, body |-> [kind |-> "empty", obj |-> NoObj, text |-> ""]]

Responses == {ConnError} \cup [status : Statuses, body : Bodies]

\* response.json(): the parsed value, or a JSON decode error.
response_json(body) ==
    IF body.kind = "object" THEN [ok |-> TRUE, isObj |-> TRUE, obj |-> body.obj]
    ELSE IF body.kind = "array" THEN [ok |-> TRUE, isObj |-> FALSE, obj |-> NoObj]
    ELSE [ok |-> FALSE, isObj |-> FALSE, obj |-> NoObj]

----------------------------------------------------------------------------
(* Results and exceptions *)

NoErr == [type |-> "none", kind |-> "", status |-> 0, detail |-> ""]

Exc(type, kind, status, detail) ==
    [type |-> type, kind |-> kind, status |-> status, detail |-> detail]

Return(v) == [ok |-> TRUE, value |-> [ret |-> v], err |-> NoErr]

Raise(e) == [ok |-> FALSE, value |-> None, err |-> e]

NoResult == [ok |-> FALSE, value |-> None, err |-> NoErr]

----------------------------------------------------------------------------
(* Transport: session.request through the mounted HTTPAdapter *)

\* Retry.is_retry: the method is allowed and the status is in status_forcelist.
Retry_is_retry(retry, method, status) ==
    method \in retry.method_whitelist /\ status \in retry.status_forcelist

\* Variant of Retry_is_exhausted: off by one, the budget allows one more re-send.
Retry_is_exhausted_OffByOne(total) == total < -1

\* Retry.is_exhausted on the decremented budget.
Retry_is_exhausted(total) == total < 0

\* One attempt of urlopen with `left` retries remaining: the response is handed
\* back, or the request is sent again on a decremented budget, or, with the
\* budget spent, the adapter raises (ConnectionError for a failed exchange,
\* RetryError for a status of the force list).
TransportStep(retry, left, method, resp) ==
    IF resp.status = 0 \/ Retry_is_retry(retry, method, resp.status)
    THEN IF Retry_is_exhausted(left - 1)
         THEN [next |-> "raise",
               exc  |-> IF resp.status = 0 THEN "ConnectionError" ELSE "RetryError",
               left |-> left, resp |-> resp]
         ELSE [next |-> "retry", exc |-> "", left |-> left - 1, resp |-> resp]
    ELSE [next |-> "response", exc |-> "", left |-> left, resp |-> resp]

\* Response.raise_for_status raises HTTPError for 4xx and 5xx.
raise_for_status(resp) == resp.status >= 400 /\ resp.status < 600

\* Variant of PrepareRequest: the request's own headers replace the session's
\* defaults instead of being merged into them, and the API key is lost.
PrepareRequest_KeyDropped(s, method, endpoint, payload) ==
    [method  |-> method,
     url     |-> urljoin(s.base_url \o <<"/">>, lstrip(endpoint)),
     headers |-> [s.headers EXCEPT !["X-API-Key"] = ""],
     timeout |-> s.timeout,
     json    |-> payload]

\* The merge of the session's default headers into each prepared request, with
\* the joined URL and the session timeout.
PrepareRequest(s, method, endpoint, payload) ==
    [method  |-> method,
     url     |-> urljoin(s.base_url \o <<"/">>, lstrip(endpoint)),
     headers |-> s.headers,
     timeout |-> s.timeout,
     json    |-> payload]

----------------------------------------------------------------------------
(* _make_request *)

\* Variant of HandleHTTPError: the error body is parsed before the status is
\* looked at.
HandleHTTPError_BodyFirst(resp) ==
    LET error_data == response_json(resp.body) IN
    IF ~error_data.ok
    THEN Raise(Exc("ValueError", "HTTP", resp.status, resp.body.text))
    ELSE IF ~error_data.isObj
    THEN Raise(Exc("AttributeError", "get", 0, ""))
    ELSE IF resp.status = 401
    THEN Raise(Exc("ValueError", "Invalid API key", 0, ""))
    ELSE IF resp.status = 429
    THEN Raise(Exc("ValueError", "Rate limit exceeded", 0, ""))
    ELSE Raise(Exc("ValueError", "API Error", resp.status,
                   IF "error" \in DOMAIN error_data.obj
                   THEN error_data.obj.error ELSE "str(e)"))

\* except requests.exceptions.HTTPError as e: ...
HandleHTTPError(resp) ==
    IF resp.status = 401
    THEN Raise(Exc("ValueError", "Invalid API key", 0, ""))
    ELSE IF resp.status = 429
    THEN Raise(Exc("ValueError", "Rate limit exceeded", 0, ""))
    ELSE IF resp.status >= 400
    THEN LET error_data == response_json(resp.body) IN
         IF ~error_data.ok
         THEN Raise(Exc("ValueError", "HTTP", resp.status, resp.body.text))
         ELSE IF ~error_data.isObj
         THEN Raise(Exc("AttributeError", "get", 0, ""))
         ELSE Raise(Exc("ValueError", "API Error", resp.status,
                        IF "error" \in DOMAIN error_data.obj
                        THEN error_data.obj.error ELSE "str(e)"))
    ELSE Raise(Exc("HTTPError", "", resp.status, ""))

\* The outcome of _make_request once the transport has finished (t is the last
\* TransportStep).  jsonErrIsRequestException: whether response.json() raises
\* requests' own JSONDecodeError (a RequestException, requests >= 2.27) or the
\* json module's.
make_request(t, jsonErrIsRequestException) ==
    IF t.next = "raise"
    THEN Raise(Exc("ValueError", "Request failed", 0, t.exc))
    ELSE IF raise_for_status(t.resp)
    THEN HandleHTTPError(t.resp)
    ELSE LET parsed == response_json(t.resp.body) IN
         IF parsed.ok
         THEN [ok |-> TRUE, value |-> [isObj |-> parsed.isObj, obj |-> parsed.obj], err |-> NoErr]
         ELSE IF jsonErrIsRequestException
         THEN Raise(Exc("ValueError", "Request failed", 0, "JSONDecodeError"))
         ELSE Raise(Exc("JSONDecodeError", "", 0, ""))

----------------------------------------------------------------------------
(* The client operations *)

GetOps == {"health_check", "list_frameworks", "list_protocols"}

PostOps == {"validate_openapi", "validate_agent_config", "validate_compliance",
            "validate_protocols", "estimate_tokens"}

Operations == GetOps \cup PostOps \cup {"validate_and_estimate"}

Method(fn) == IF fn \in GetOps THEN "GET" ELSE "POST"

Endpoint(fn) ==
    CASE fn = "health_check"          -> <<"/", "health">>
      [] fn = "list_frameworks"       -> <<"/", "frameworks">>
      [] fn = "list_protocols"        -> <<"/", "protocols">>
      [] fn = "validate_openapi"      -> <<"/", "validate", "/", "openapi">>
      [] fn = "validate_agent_config" -> <<"/", "validate", "/", "agent-config">>
      [] fn = "validate_compliance"   -> <<"/", "validate", "/", "compliance">>
      [] fn = "validate_protocols"    -> <<"/", "validate", "/", "protocols">>
      [] fn = "estimate_tokens"       -> <<"/", "estimate", "/", "tokens">>

\* The optional list argument of validate_compliance / validate_protocols.
Extras == {<<>>, <<"x">>}

\* The json= body of each operation; `extra` is added only when truthy.
Payload(fn, value, extra) ==
    CASE fn \in GetOps -> None
      [] fn = "validate_openapi"      -> [specification |-> value]
      [] fn = "validate_agent_config" -> [configuration |-> value]
      [] fn = "validate_compliance"   ->
            IF Len(extra) > 0 THEN [configuration |-> value, frameworks |-> extra]
            ELSE [configuration |-> value]
      [] fn = "validate_protocols"    ->
            IF Len(extra) > 0 THEN [configuration |-> value, protocols |-> extra]
            ELSE [configuration |-> value]
      [] fn = "estimate_tokens"       ->
            [specification |-> value,
             options |-> [model |-> "gpt-4-turbo", requestsPerDay |-> 1000,
                          compressionRatio |-> 7]]   \* 0.7, in tenths

\* The top-level keys each operation subscripts in the response, in order.
Keys(fn) ==
    CASE fn = "list_frameworks"       -> <<"frameworks">>
      [] fn = "list_protocols"        -> <<"protocols">>
      [] fn = "validate_openapi"      ->
            <<"valid", "certification_level", "passed", "warnings", "errors">>
      [] fn = "validate_agent_config" ->
            <<"valid", "readiness_level", "passed", "warnings", "errors">>
      [] fn = "validate_compliance"   ->
            <<"valid", "authorization_readiness", "framework_results", "summary">>
      [] fn = "estimate_tokens"       ->
            <<"total_tokens", "compressed_tokens", "cost_projections",
              "token_breakdown", "optimizations">>
      [] OTHER                        -> <<>>

\* The typed record (or list) an operation builds from a response mapping that
\* has all of its keys.
Construct(fn, r) ==
    CASE fn = "list_frameworks"       -> r.frameworks
      [] fn = "list_protocols"        -> r.protocols
      [] fn = "validate_openapi"      ->
            [valid |-> r.valid, certification_level |-> r.certification_level,
             passed |-> r.passed, warnings |-> r.warnings, errors |-> r.errors]
      [] fn = "validate_agent_config" ->
            [valid |-> r.valid, certification_level |-> r.readiness_level,
             passed |-> r.passed, warnings |-> r.warnings, errors |-> r.errors]
      [] fn = "validate_compliance"   ->
            [valid |-> r.valid, authorization_readiness |-> r.authorization_readiness,
             framework_results |-> r.framework_results,
             total_passed |-> r.summary.total_passed,
             total_warnings |-> r.summary.total_warnings,
             total_errors |-> r.summary.total_errors]
      [] fn = "estimate_tokens"       ->
            [total_tokens |-> r.total_tokens, compressed_tokens |-> r.compressed_tokens,
             model |-> r.cost_projections.model,
             daily_cost |-> r.cost_projections.daily_cost,
             monthly_cost |-> r.cost_projections.monthly_cost,
             annual_cost |-> r.cost_projections.annual_cost,
             annual_savings |-> r.cost_projections.annual_savings,
             savings_percentage |-> r.cost_projections.savings_percentage,
             token_breakdown |-> r.token_breakdown,
             optimizations |-> r.optimizations]

\* What an operation does with the outcome of _make_request: an exception
\* propagates; health_check and validate_protocols return the parsed body as it
\* is; the others subscript it (TypeError on a non-mapping, KeyError on the
\* first missing key) and build their result.
OpResult(fn, r) ==
    IF ~r.ok THEN r
    ELSE IF fn \in {"health_check", "validate_protocols"} THEN Return(r.value)
    ELSE IF ~r.value.isObj THEN Raise(Exc("TypeError", "subscript", 0, ""))
    ELSE LET missing == {i \in 1..Len(Keys(fn)) : Keys(fn)[i] \notin DOMAIN r.value.obj} IN
         IF missing # {}
         THEN Raise(Exc("KeyError", "", 0,
                        Keys(fn)[CHOOSE i \in missing : \A j \in missing : i <= j]))
         ELSE Return(Construct(fn, r.value.obj))

\* Variant of ValidateAndEstimateReturn: the pair is built the wrong way round.
ValidateAndEstimateReturn_Swapped(validation, est) ==
    IF est.ok
    THEN Return([validation |-> est.value.ret, estimation |-> validation])
    ELSE est

\* Variant of ValidateAndEstimateReturn: a failure of estimate_tokens is
\* reported together with the validation already obtained.
ValidateAndEstimateReturn_Partial(validation, est) ==
    IF est.ok
    THEN Return([validation |-> validation, estimation |-> est.value.ret])
    ELSE [ok |-> FALSE, value |-> [ret |-> validation], err |-> est.err]

\* validate_and_estimate line 354: the pair, once estimate_tokens has returned;
\* an exception of estimate_tokens propagates and the validation is dropped.
ValidateAndEstimateReturn(validation, est) ==
    IF est.ok
    THEN Return([validation |-> validation, estimation |-> est.value.ret])
    ELSE est

----------------------------------------------------------------------------
(* State *)

VARIABLES
    ctor,      \* the arguments the constructor was called with
    session,   \* the client's session configuration (NoClient before construction)
    pc,        \* "idle" | "request" (inside _make_request) | "done"
    op,        \* the operation the caller invoked: [fn, input, extra]
    pending,   \* the frame of the running _make_request: [fn, method, endpoint, payload]
    left,      \* retries the transport has left for the pending request
    sent,      \* the HTTP exchanges of the current call: [req, status, fn]
    lastResp,  \* the response of the latest exchange
    calls,     \* the client methods invoked during the current call: [fn, arg]
    held,      \* validate_and_estimate's local `validation`
    outcome,   \* what the call returned or raised
    cli        \* the CLI process (CliOff when the client is used as a library)

vars == <<ctor, session, pc, op, pending, left, sent, lastResp, calls, held, outcome, cli>>

NoOp == [fn |-> "none", input |-> DictInput, extra |-> <<>>]

NoPending == [fn |-> "none", method |-> "", endpoint |-> <<>>, payload |-> None]

Frame(fn, value, extra) ==
    [fn |-> fn, method |-> Method(fn), endpoint |-> Endpoint(fn),
     payload |-> Payload(fn, value, extra)]

CliOff ==
    [pc |-> "off", argc |-> 0, argKey |-> "", envKey |-> "", file |-> "",
     exit |-> -1, loaded |-> FALSE, validation |-> "none", estimation |-> "none",
     printed |-> FALSE]

Ctors ==
    [api_key : ApiKeys, base_url : BaseUrls, timeout : {DefaultTimeout},
     max_retries : 0..MaxRetries]

Init ==
    /\ ctor \in Ctors
    /\ session = OpenAPIAgentsClient(ctor.api_key, ctor.base_url, ctor.timeout, ctor.max_retries)
    /\ pc = "idle"
    /\ op = NoOp
    /\ pending = NoPending
    /\ left = 0
    /\ sent = <<>>
    /\ lastResp = ConnError
    /\ calls = <<>>
    /\ held = None
    /\ outcome = NoResult
    /\ cli = CliOff

\* The arguments an operation takes: GET operations take none, only
\* validate_compliance and validate_protocols take the optional list.
ArgsOf(fn) ==
    IF fn \in GetOps THEN {<<DictInput, <<>> >>}
    ELSE IF fn \in {"validate_compliance", "validate_protocols"} THEN Inputs \X Extras
    ELSE Inputs \X {<<>>}

\* The client method an operation enters first.
FirstFn(fn) == IF fn = "validate_and_estimate" THEN "validate_openapi" ELSE fn

\* The budget a new request starts with: the adapter's Retry object is never
\* written, each urlopen call starts from it.
NewBudget(s) == s.max_retries.total

\* The caller invokes a client method.  Text input is parsed first; a YAML
\* error propagates before any request is made.
Call(fn, input, extra) ==
    /\ cli.pc = "off"
    /\ pc = "idle"
    /\ op' = [fn |-> fn, input |-> input, extra |-> extra]
    /\ calls' = << [fn |-> FirstFn(fn), arg |-> input] >>
    /\ sent' = <<>>
    /\ held' = None
    /\ lastResp' = ConnError
    /\ LET arg == IF fn \in GetOps THEN [ok |-> TRUE, value |-> None] ELSE ResolveInput(input) IN
       IF arg.ok
       THEN /\ pending' = Frame(FirstFn(fn), arg.value, extra)
            /\ left' = NewBudget(session)
            /\ pc' = "request"
            /\ outcome' = NoResult
       ELSE /\ pending' = NoPending
            /\ left' = 0
            /\ pc' = "done"
            /\ outcome' = Raise(Exc("YAMLError", "", 0, input.text))
    /\ UNCHANGED <<ctor, session, cli>>

\* One HTTP exchange of the pending request and everything the client does with
\* its result: the transport re-sends, or _make_request and the operation
\* finish; validate_and_estimate goes on from validate_openapi to
\* estimate_tokens.
Attempt(resp, jsonErrIsRequestException) ==
    /\ cli.pc = "off"
    /\ pc = "request"
    /\ LET req == PrepareRequest(session, pending.method, pending.endpoint, pending.payload)
           t   == TransportStep(session.max_retries, left, pending.method, resp)
           r   == OpResult(pending.fn, make_request(t, jsonErrIsRequestException))
       IN
       /\ sent' = Append(sent, [req |-> req, status |-> resp.status, fn |-> pending.fn])
       /\ lastResp' = resp
       /\ IF t.next = "retry"
          THEN /\ left' = t.left
               /\ UNCHANGED <<pc, pending, calls, held, outcome>>
          ELSE IF op.fn = "validate_and_estimate" /\ pending.fn = "validate_openapi" /\ r.ok
          THEN LET arg == ResolveInput(op.input) IN
               /\ held' = r.value.ret
               /\ calls' = Append(calls, [fn |-> "estimate_tokens", arg |-> op.input])
               /\ IF arg.ok
                  THEN /\ pending' = Frame("estimate_tokens", arg.value, <<>>)
                       /\ left' = NewBudget(session)
                       /\ pc' = "request"
                       /\ outcome' = NoResult
                  ELSE /\ pending' = NoPending
                       /\ left' = 0
                       /\ pc' = "done"
                       /\ outcome' = Raise(Exc("YAMLError", "", 0, op.input.text))
          ELSE /\ outcome' = IF op.fn = "validate_and_estimate" /\ pending.fn = "estimate_tokens"
                             THEN ValidateAndEstimateReturn(held, r)
                             ELSE r
               /\ pc' = "done"
               /\ pending' = NoPending
               /\ left' = 0
               /\ UNCHANGED <<calls, held>>
    /\ UNCHANGED <<ctor, session, op, cli>>

\* The caller takes the result (or catches the exception) and is ready for its
\* next call on the same client.
Resume ==
    /\ cli.pc = "off"
    /\ pc = "done"
    /\ pc' = "idle"
    /\ op' = NoOp
    /\ sent' = <<>>
    /\ calls' = <<>>
    /\ held' = None
    /\ lastResp' = ConnError
    /\ outcome' = NoResult
    /\ UNCHANGED <<ctor, session, pending, left, cli>>

Next ==
    \/ \E fn \in Operations : \E a \in ArgsOf(fn) : Call(fn, a[1], a[2])
    \/ \E resp \in Responses : \E b \in BOOLEAN : Attempt(resp, b)
    \/ Resume

Spec == Init /\ [][Next]_vars

----------------------------------------------------------------------------
(* Vocabulary of the properties *)

\* The exchanges of the current call made for client method fn.
Exchanges(fn) == {i \in DOMAIN sent : sent[i].fn = fn}

Attempts(fn) == Cardinality(Exchanges(fn))

\* The client method of the latest exchange.
LastFn == sent[Len(sent)].fn

\* Every exchange of the request that just finished was answered with status s.
AllAnswered(s) == \A i \in Exchanges(LastFn) : sent[i].status = s

\* A 2xx body that is a JSON mapping with every key the method reads (any JSON
\* value for the two methods that return the parsed body as it is).
WellFormed(fn, body) ==
    /\ response_json(body).ok
    /\ fn \notin {"health_check", "validate_protocols"} =>
          /\ body.kind = "object"
          /\ \A i \in 1..Len(Keys(fn)) : Keys(fn)[i] \in DOMAIN body.obj

----------------------------------------------------------------------------
(* Properties of the client used as a library *)

\* C1: when the server answers 429 on every attempt, then once the retries are
\* exhausted the caller receives the rate-limit error ("Rate limit exceeded"),
\* not the request-failure error or any other kind.
C1_RateLimitErrorAfterExhaustion ==
    (pc = "done" /\ sent # <<>> /\ AllAnswered(429)) =>
        /\ ~outcome.ok
        /\ outcome.err.type = "ValueError"
        /\ outcome.err.kind = "Rate limit exceeded"

\* C2: a 503 is retried up to max_retries times, for GET and POST alike: no
\* request is sent more than max_retries + 1 times; a 503 with budget left is
\* not surfaced but sent again; when every attempt was answered 503 the call
\* ends in an error after exactly max_retries + 1 attempts; and when an attempt
\* gets a 2xx response (with the body the method reads) the call succeeds with
\* the content of that response.
C2_Retry503 ==
    /\ \A fn \in GetOps \cup PostOps : Attempts(fn) <= ctor.max_retries + 1
    /\ (sent # <<>> /\ sent[Len(sent)].status = 503 /\ Attempts(LastFn) <= ctor.max_retries) =>
          (pc = "request" /\ pending.fn = LastFn)
    /\ (pc = "done" /\ sent # <<>> /\ AllAnswered(503)) =>
          /\ Attempts(LastFn) = ctor.max_retries + 1
          /\ ~outcome.ok
          /\ outcome.err # NoErr
    /\ (pc = "done" /\ sent # <<>> /\ lastResp.status = 200 /\ WellFormed(LastFn, lastResp.body)) =>
          /\ outcome.ok
          /\ op.fn \in {"validate_openapi", "validate_agent_config", "validate_compliance"} =>
                outcome.value.ret.valid = lastResp.body.obj.valid
          /\ op.fn = "estimate_tokens" =>
                outcome.value.ret.total_tokens = lastResp.body.obj.total_tokens
          /\ op.fn = "validate_and_estimate" =>
                outcome.value.ret.estimation.total_tokens = lastResp.body.obj.total_tokens
          /\ op.fn = "list_frameworks" => outcome.value.ret = lastResp.body.obj.frameworks
          /\ op.fn = "list_protocols" => outcome.value.ret = lastResp.body.obj.protocols
          /\ op.fn \in {"health_check", "validate_protocols"} =>
                outcome.value.ret.obj = lastResp.body.obj

\* A POST that was answered 503 and then 200 on its retry, and succeeded.
C2_Witness ==
    /\ pc = "done"
    /\ op.fn = "validate_openapi"
    /\ ctor.max_retries = 1
    /\ Len(sent) = 2
    /\ sent[1].status = 503
    /\ sent[2].status = 200
    /\ outcome.ok

\* C3: a response with status 401 ends the call with the authentication error
\* "Invalid API key", whatever the body is (JSON object, JSON non-object,
\* non-JSON text or empty).
C3_Unauthorized ==
    (sent # <<>> /\ sent[Len(sent)].status = 401) =>
        /\ pc = "done"
        /\ outcome = Raise(Exc("ValueError", "Invalid API key", 0, ""))

\* A 401 whose body is a JSON value that is not a mapping.
C3_Witness ==
    /\ pc = "done"
    /\ lastResp.status = 401
    /\ lastResp.body.kind = "array"
    /\ outcome.err.kind = "Invalid API key"

\* The taxonomy kind of what went wrong in the call that just ended.
Cause ==
    IF op.fn \notin GetOps /\ ~ResolveInput(op.input).ok THEN "parse"
    ELSE IF sent = <<>> THEN "none"
    ELSE IF lastResp.status = 0 THEN "transport"
    ELSE IF lastResp.status = 401 THEN "authentication"
    ELSE IF lastResp.status = 429 THEN "rate_limit"
    ELSE IF lastResp.status >= 400 THEN "api_error"
    ELSE IF ~response_json(lastResp.body).ok THEN "parse"
    ELSE "none"

\* The taxonomy kind a caller can tell from the exception it receives.
SurfacedKind(err) ==
    IF err.type = "ValueError" /\ err.kind = "Invalid API key" THEN "authentication"
    ELSE IF err.type = "ValueError" /\ err.kind = "Rate limit exceeded" THEN "rate_limit"
    ELSE IF err.type = "ValueError" /\ err.kind \in {"API Error", "HTTP"} THEN "api_error"
    ELSE IF err.type = "ValueError" /\ err.kind = "Request failed" THEN "transport"
    ELSE IF err.type \in {"YAMLError", "JSONDecodeError"} THEN "parse"
    ELSE "other"

\* C4: each error kind of the taxonomy is surfaced as an error the caller can
\* tell from the other kinds, and none is swallowed: a call in which one
\* occurred does not return a normal result.
C4_ErrorKindsDistinguishable ==
    (pc = "done" /\ Cause # "none") =>
        /\ ~outcome.ok
        /\ SurfacedKind(outcome.err) = Cause

\* C5: validate_and_estimate invokes validate_openapi once and then
\* estimate_tokens once, both on the specification it was given, and returns
\* the pair (validation, estimation) of their results.
C5_ValidateAndEstimate ==
    (op.fn = "validate_and_estimate") =>
        /\ Len(calls) \in {1, 2}
        /\ calls[1] = [fn |-> "validate_openapi", arg |-> op.input]
        /\ Len(calls) = 2 => calls[2] = [fn |-> "estimate_tokens", arg |-> op.input]
        /\ \A i, j \in DOMAIN sent :
              /\ (sent[i].fn = "validate_openapi" /\ sent[j].fn = "estimate_tokens") => i < j
              /\ sent[i].req.json.specification = sent[j].req.json.specification
        /\ (pc = "done" /\ outcome.ok) =>
              /\ Len(calls) = 2
              /\ Attempts("validate_openapi") >= 1
              /\ Attempts("estimate_tokens") >= 1
              /\ held # None
              /\ outcome.value.ret.validation = held
              /\ outcome.value.ret.validation.certification_level = "gold"
              /\ outcome.value.ret.estimation =
                    Construct("estimate_tokens", lastResp.body.obj)

\* validate_and_estimate returned its pair for a YAML text input.
C5_Witness ==
    /\ pc = "done"
    /\ op.fn = "validate_and_estimate"
    /\ op.input.isStr
    /\ outcome.ok
    /\ Len(calls) = 2

\* The fields of the result each operation returns.
ResultFields(fn) ==
    CASE fn \in {"validate_openapi", "validate_agent_config"} ->
            {"valid", "certification_level", "passed", "warnings", "errors"}
      [] fn = "validate_compliance" ->
            {"valid", "authorization_readiness", "framework_results",
             "total_passed", "total_warnings", "total_errors"}
      [] fn = "estimate_tokens" ->
            {"total_tokens", "compressed_tokens", "model", "daily_cost", "monthly_cost",
             "annual_cost", "annual_savings", "savings_percentage", "token_breakdown",
             "optimizations"}
      [] fn = "validate_and_estimate" -> {"validation", "estimation"}

\* C6: every operation either returns its complete result or raises and returns
\* nothing; in validate_and_estimate no estimate request is sent when the
\* validate call fails, and the validation already obtained is not returned
\* when the estimate call fails.
C6_AllOrNothing ==
    /\ pc # "done" => outcome = NoResult
    /\ pc = "done" =>
          \/ /\ outcome.ok
             /\ outcome.err = NoErr
             /\ outcome.value # None
             /\ op.fn \in {"validate_openapi", "validate_agent_config", "validate_compliance",
                          "estimate_tokens", "validate_and_estimate"} =>
                   DOMAIN outcome.value.ret = ResultFields(op.fn)
             /\ op.fn = "validate_and_estimate" =>
                   /\ DOMAIN outcome.value.ret.validation = ResultFields("validate_openapi")
                   /\ DOMAIN outcome.value.ret.estimation = ResultFields("estimate_tokens")
          \/ /\ ~outcome.ok
             /\ outcome.err # NoErr
             /\ outcome.value = None
    /\ (pc = "done" /\ op.fn = "validate_and_estimate" /\ Len(calls) = 1) =>
          /\ ~outcome.ok
          /\ Attempts("estimate_tokens") = 0
    /\ (pc = "done" /\ op.fn = "validate_and_estimate" /\ Len(calls) = 2 /\ ~outcome.ok) =>
          outcome.value = None

\* validate_and_estimate failed in estimate_tokens after validate_openapi had
\* returned its result.
C6_Witness ==
    /\ pc = "done"
    /\ op.fn = "validate_and_estimate"
    /\ Len(calls) = 2
    /\ held # None
    /\ ~outcome.ok
    /\ Attempts("estimate_tokens") >= 1

\* C9: whatever calls were made, the session configuration is the one set at
\* construction, every request starts with the full retry budget, and every
\* HTTP request sent, retries included, carries Content-Type: application/json
\* and X-API-Key equal to the constructor's api_key (with the session's
\* timeout, to a URL under the base URL).
C9_SessionUnchanged ==
    /\ session = OpenAPIAgentsClient(ctor.api_key, ctor.base_url, ctor.timeout, ctor.max_retries)
    /\ session.base_url = DefaultBaseUrl
    /\ (pc = "request" /\ Attempts(pending.fn) = 0) => left = ctor.max_retries
    /\ \A i \in DOMAIN sent :
          /\ sent[i].req.headers["Content-Type"] = "application/json"
          /\ sent[i].req.headers["X-API-Key"] = ctor.api_key
          /\ sent[i].req.timeout = ctor.timeout
          /\ SubSeq(sent[i].req.url, 1, Len(DefaultBaseUrl) + 1) = DefaultBaseUrl \o <<"/">>
          /\ sent[i].req.url[Len(sent[i].req.url)] # "/"

\* A call that was retried, on a client built from a base URL with a trailing
\* slash and the second API key.
C9_Witness ==
    /\ pc = "done"
    /\ ctor.api_key = "K2"
    /\ ctor.base_url # DefaultBaseUrl
    /\ Len(sent) = 2
    /\ sent[1].status = 503
    /\ sent[1].req = sent[2].req

\* C10: a final response with status >= 400 other than 401 and 429 gives the
\* caller a generic API error (a ValueError): with the body's `error` field
\* when the body parses as JSON, with the raw status and body text when it does
\* not; no other exception type escapes for any body shape.
C10_GenericApiError ==
    (pc = "done" /\ sent # <<>> /\ lastResp.status >= 400 /\ lastResp.status \notin {401, 429}) =>
        /\ ~outcome.ok
        /\ outcome.err.type = "ValueError"
        /\ IF response_json(lastResp.body).ok
           THEN /\ outcome.err.kind = "API Error"
                /\ (lastResp.body.kind = "object" /\ "error" \in DOMAIN lastResp.body.obj) =>
                      outcome.err.detail = lastResp.body.obj.error
           ELSE /\ outcome.err.kind = "HTTP"
                /\ outcome.err.status = lastResp.status
                /\ outcome.err.detail = lastResp.body.text

----------------------------------------------------------------------------
(* The CLI entry point: <program> <spec-file> [api-key] *)

\* os.getenv gives None for a variable that is not set.
Unset == "<unset>"

\* Specification files: the extension decides the parser; JSON text is YAML too.
Files == [ext : {".yaml", ".json"}, content : {"absent", "json", "yaml", "garbage"}]

\* load_specification: yaml.safe_load for .yaml/.yml, json.load otherwise; a
\* missing file or a parse error propagates.
load_specification(file) ==
    IF file.content = "absent" THEN [ok |-> FALSE, value |-> None]
    ELSE IF file.ext \in {".yaml", ".yml"}
    THEN IF file.content \in {"json", "yaml"}
         THEN [ok |-> TRUE, value |-> IF file.content = "json" THEN D1 ELSE D2]
         ELSE [ok |-> FALSE, value |-> None]
    ELSE IF file.content = "json"
         THEN [ok |-> TRUE, value |-> D1]
         ELSE [ok |-> FALSE, value |-> None]

\* api_key = sys.argv[2] if len(sys.argv) > 2 else os.getenv('OPENAPI_AI_AGENTS_KEY')
ResolveApiKey(argc, argKey, envKey) == IF argc > 2 THEN argKey ELSE envKey

\* Variant of NotApiKey: `api_key is None`, which lets the empty string pass.
NotApiKey_NoneOnly(api_key) == api_key = Unset

\* `not api_key`: None and the empty string are both falsy.
NotApiKey(api_key) == api_key \in {Unset, ""}

\* The prints after a passed validation and after the estimation; the loop over
\* estimation.optimizations[:2] subscripts 'type' and 'potential_savings'.
PrintEstimation(e) ==
    \A i \in 1..Len(e.optimizations) :
        i <= 2 => {"type", "potential_savings"} \subseteq DOMAIN e.optimizations[i]

\* Variant of AfterValidation: the sys.exit(1) of the failed branch is missing.
AfterValidation_NoExit(r) ==
    IF ~r.ok THEN "exit" ELSE "estimate"

\* What the CLI does with the result of validate_openapi: "exit" (an exception,
\* or valid is false: sys.exit(1)) or "estimate".
AfterValidation(r) ==
    IF ~r.ok THEN "exit"
    ELSE IF r.value.ret.valid THEN "estimate"
    ELSE "exit"

\* The responses the server gives the CLI run.
CliBodies ==
    {ObjBody(FullObj(TRUE, TRUE)),
     ObjBody(FullObj(TRUE, FALSE)),
     ObjBody(FullObj(FALSE, TRUE)),
     ObjBody([valid |-> TRUE]),
     [kind |-> "text", obj |-> NoObj, text |-> "oops"]}

CliResponses ==
    {ConnError, [status |-> 401, body |-> [kind |-> "text", obj |-> NoObj, text |-> "oops"]]}
    \cup [status : {200, 503}, body : CliBodies]

NoCtor == [api_key |-> "", base_url |-> <<>>, timeout |-> 0, max_retries |-> 0]

CliInit ==
    /\ ctor = NoCtor
    /\ session = NoClient
    /\ pc = "idle"
    /\ op = NoOp
    /\ pending = NoPending
    /\ left = 0
    /\ sent = <<>>
    /\ lastResp = ConnError
    /\ calls = <<>>
    /\ held = None
    /\ outcome = NoResult
    /\ \E argc \in 1..3, argKey \in {"", "K1"}, envKey \in {Unset, "", "K2"}, file \in Files :
          /\ argc < 3 => argKey = ""
          /\ cli = [pc |-> "start", argc |-> argc, argKey |-> argKey, envKey |-> envKey,
                    file |-> file, exit |-> -1, loaded |-> FALSE,
                    validation |-> "none", estimation |-> "none", printed |-> FALSE]

Exit(code) == [cli EXCEPT !.pc = "exited", !.exit = code]

\* Lines 379-399: the usage and API key checks, the construction of the client,
\* the load of the file and the call of validate_openapi up to its request.
CliStart ==
    /\ cli.pc = "start"
    /\ LET api_key == ResolveApiKey(cli.argc, cli.argKey, cli.envKey)
           spec    == load_specification(cli.file)
       IN
       IF cli.argc < 2 \/ NotApiKey(api_key)
       THEN /\ cli' = Exit(1)
            /\ UNCHANGED <<ctor, session, pc, op, pending, left, calls>>
       ELSE /\ ctor' = [api_key |-> api_key, base_url |-> DefaultBaseUrl,
                        timeout |-> DefaultTimeout, max_retries |-> DefaultMaxRetries]
            /\ session' = OpenAPIAgentsClient(api_key, DefaultBaseUrl, DefaultTimeout,
                                              DefaultMaxRetries)
            /\ IF ~spec.ok
               THEN /\ cli' = Exit(1)
                    /\ UNCHANGED <<pc, op, pending, left, calls>>
               ELSE /\ cli' = [cli EXCEPT !.pc = "validating", !.loaded = TRUE]
                    /\ op' = [fn |-> "validate_openapi",
                              input |-> [isStr |-> FALSE, dict |-> spec.value, text |-> ""],
                              extra |-> <<>>]
                    /\ calls' = << [fn |-> "validate_openapi", arg |-> op'.input] >>
                    /\ pending' = Frame("validate_openapi", spec.value, <<>>)
                    /\ left' = NewBudget(session')
                    /\ pc' = "request"
    /\ UNCHANGED <<sent, lastResp, held, outcome>>

\* One HTTP exchange of the CLI's pending request and what lines 399-433 do with
\* its result.
CliAttempt(resp, jsonErrIsRequestException) ==
    /\ cli.pc \in {"validating", "estimating"}
    /\ pc = "request"
    /\ LET req == PrepareRequest(session, pending.method, pending.endpoint, pending.payload)
           t   == TransportStep(session.max_retries, left, pending.method, resp)
           r   == OpResult(pending.fn, make_request(t, jsonErrIsRequestException))
       IN
       /\ sent' = Append(sent, [req |-> req, status |-> resp.status, fn |-> pending.fn])
       /\ lastResp' = resp
       /\ IF t.next = "retry"
          THEN /\ left' = t.left
               /\ UNCHANGED <<pc, op, pending, calls, held, outcome, cli>>
          ELSE IF cli.pc = "validating" /\ AfterValidation(r) = "estimate"
          THEN /\ held' = r.value.ret
               /\ op' = [op EXCEPT !.fn = "estimate_tokens"]
               /\ calls' = Append(calls, [fn |-> "estimate_tokens", arg |-> op.input])
               /\ pending' = Frame("estimate_tokens", op.input.dict, <<>>)
               /\ left' = NewBudget(session)
               /\ outcome' = NoResult
               /\ cli' = [cli EXCEPT !.pc = "estimating", !.validation = "valid"]
               /\ UNCHANGED pc
          ELSE /\ outcome' = r
               /\ pc' = "done"
               /\ pending' = NoPending
               /\ left' = 0
               /\ UNCHANGED <<op, calls, held>>
               /\ IF cli.pc = "validating"
                  THEN cli' = [Exit(1) EXCEPT !.validation = IF r.ok THEN "invalid" ELSE "error"]
                  ELSE IF ~r.ok
                  THEN cli' = [Exit(1) EXCEPT !.estimation = "error"]
                  ELSE IF PrintEstimation(r.value.ret)
                  THEN cli' = [Exit(0) EXCEPT !.estimation = "ok", !.printed = TRUE]
                  ELSE cli' = [Exit(1) EXCEPT !.estimation = "ok"]
    /\ UNCHANGED <<ctor, session>>

CliNext ==
    \/ CliStart
    \/ \E resp \in CliResponses : \E b \in BOOLEAN : CliAttempt(resp, b)

\* The process runs on until it exits: every exchange ends within the timeout.
CliSpec == CliInit /\ [][CliNext]_vars /\ WF_vars(CliNext)

----------------------------------------------------------------------------
(* Properties of the CLI *)

\* The API key the CLI resolves is present and not empty.
KeyGiven == ~NotApiKey(ResolveApiKey(cli.argc, cli.argKey, cli.envKey))

\* C7 as stated: the CLI exits with 0 or 1, and with 0 exactly when the key is
\* present, the file loads, validation reports valid = true and the token
\* estimation succeeds.
C7_ExitZeroIffEstimated ==
    cli.pc = "exited" =>
        /\ cli.exit \in {0, 1}
        /\ cli.exit = 0 <=>
              (KeyGiven /\ cli.loaded /\ cli.validation = "valid" /\ cli.estimation = "ok")

\* C7, amended: every run of the CLI terminates, with exit code 0 or 1; it
\* exits 0 exactly when a spec-file argument and an API key are given, the file
\* loads, validation reports valid = true, the token estimation succeeds and
\* the report of the results is printed without an error; it exits 1 otherwise.
C7_ExitCode ==
    /\ [](cli.pc = "exited" =>
            /\ cli.exit \in {0, 1}
            /\ cli.exit = 0 <=>
                  /\ cli.argc >= 2
                  /\ KeyGiven
                  /\ load_specification(cli.file).ok
                  /\ cli.loaded
                  /\ cli.validation = "valid"
                  /\ held # None /\ held.valid
                  /\ cli.estimation = "ok"
                  /\ outcome.ok
                  /\ cli.printed)
    /\ <>(cli.pc = "exited")

\* A run that exits 0 after a retried request.
C7_Witness ==
    /\ cli.pc = "exited"
    /\ cli.exit = 0
    /\ Len(sent) > 2
    /\ cli.printed

\* C8: when the API key is absent or empty both as argument and in the
\* environment variable, the CLI fails before any network call: no client is
\* constructed, the file is not loaded, no request is ever sent, and the exit
\* code is 1.
C8_FailFastWithoutKey ==
    ((cli.argc < 3 \/ cli.argKey = "") /\ cli.envKey \in {Unset, ""} /\ cli.pc # "off") =>
        /\ session = NoClient
        /\ ctor = NoCtor
        /\ ~cli.loaded
        /\ sent = <<>>
        /\ calls = <<>>
        /\ pc = "idle"
        /\ cli.pc \in {"start", "exited"}
        /\ cli.pc = "exited" => cli.exit = 1

\* A run with a loadable file, no key argument and an empty environment
\* variable, after it exited.
C8_Witness ==
    /\ cli.pc = "exited"
    /\ cli.argc = 2
    /\ cli.envKey = ""
    /\ load_specification(cli.file).ok
    /\ cli.exit = 1

====
